---- MODULE Spec2Model ----
(***************************************************************************)
(* Model of the serial device connection manager (class DeviceController,  *)
(* unbounded-retry build) together with the Transport it drives            *)
(* (a SerialPort instance) and the callers of its public methods.          *)
(*                                                                         *)
(* One action per handler of the event loop: a public method call, a timer *)
(* callback, a Transport notification or a write completion callback.      *)
(* Every handler runs to completion, as on the Node.js event loop.         *)
(*                                                                         *)
(* Transport conventions (SerialPort):                                     *)
(*  - open(cb) reports a failed open to cb only; an instance created with  *)
(*    autoOpen: true has no callback and emits 'error' instead;            *)
(*  - a successful open emits 'open';                                      *)
(*  - close() makes isOpen false at once and emits 'close' later;          *)
(*  - removeAllListeners() detaches the manager's handlers, so a replaced  *)
(*    instance notifies nobody; write callbacks are not listeners and      *)
(*    still arrive, in the order of the writes.                            *)
(*                                                                         *)
(* The second part models the trigger poller (class BlockchainListener)    *)
(* and the retry helper sendCommandWithRetry it dispatches through. Every  *)
(* await of checkForEvents is a position of a scan: a scan is the run of   *)
(* one checkForEvents call, and setInterval starts one at every tick.      *)
(*                                                                         *)
(* Ledger conventions (JSON-RPC provider):                                 *)
(*  - the chain only grows; getBlockNumber resolves with the height at the *)
(*    time its answer is delivered, or throws;                             *)
(*  - getLogs resolves with the logs of the requested range that carry the *)
(*    event's topic, in block order, or throws;                            *)
(*  - parseLog throws on a log whose data does not decode.                 *)
(***************************************************************************)
EXTENDS Integers, Sequences, FiniteSets, TLC

\* ------------------------------------------------------------------ bounds

\* Number of sendCommand calls made by the callers in one behaviour.
MaxCalls == 2

\* Cap on reconnectAttempts (the counter has no bound in the program).
MaxAttempts == 5

\* Number of blocks mined in one behaviour.
MaxTip == 2

\* Number of checkForEvents calls that can be in progress at the same time.
MaxScans == 2

\* Number of getLogs answers delivered in one behaviour.
MaxFetches == 3

\* Number of sendCommand calls made for the poller's dispatches in one
\* behaviour.
MaxDispatches == 4

\* ------------------------------------------------------- program constants

INITIAL_RECONNECT_DELAY == 1000

MAX_RECONNECT_DELAY == 30000

\* sendCommandWithRetry's default maxRetries.
MaxRetries == 3

\* Command tokens the callers send ('4' opens the door, '1' sorts plastic).
Commands == {"1", "4"}

\* The sendCommand calls of one behaviour, in call order: the route handlers
\* make at most MaxCalls of them, the poller at most MaxDispatches.
Ids == 1..(IF MaxCalls > MaxDispatches THEN MaxCalls ELSE MaxDispatches)

NoCommand == "-"

\* The slots of the checkForEvents calls in progress.
Scans == 1..MaxScans

\* What a mined block holds for the poller's filter: no log with the event's
\* topic, a ContentsPurchased log, or a log with the topic that parseLog
\* cannot decode.
Kinds == {"none", "purchase", "malformed"}

VARIABLES
    deviceExists,        \* environment: fs.existsSync(portPath)
    port,                \* current SerialPort: "null", "closed", "opening", "open", "closing"
    openCb,              \* the open in flight was requested by connect() with a callback
    isConnected,         \* DeviceController.isConnected
    reconnectTimer,      \* handle: "null", "pending" (scheduled) or "fired" (handle kept after firing)
    timerDelay,          \* delay given to the setTimeout call that made the timer
    reconnectAttempts,   \* DeviceController.reconnectAttempts
    commandQueue,        \* DeviceController.commandQueue, as call ids in queue order
    deviceCheckInterval, \* TRUE while the presence-check interval is installed
    writes,              \* port.write calls whose callback has not run yet, oldest first
    wire,                \* history: every payload handed to port.write, in call order
    command,             \* command[id]: the argument of the id-th sendCommand call
    result,              \* result[id]: the settlements (resolve/reject calls) of that call's promise
    queuedIds,           \* history: the calls that were queued (made while not connected)
    cleaned,             \* history: cleanup() has been called
    episodeDelay,        \* history: last delay scheduled since the last successful open or connect() (0: none)
    failedOpens,         \* history: consecutive failed retry opens since the last successful open or connect()
    acks,                \* history: acks[id] is what the write callback of call id reported
    lastCall,            \* history: what the step just taken was, when it was a cleanup() ("cleanup",
                         \* "cleanup2" right after another cleanup) or a connect() that found the
                         \* manager connected ("connected"), or a scan that returned
                         \* for want of a new block ("noNewBlocks"), or a stopListening() that
                         \* cleared the interval ("stop") or found none ("stopNoInterval");
                         \* "none" otherwise
    timers,              \* history: the setTimeout timers scheduled and neither fired nor cleared
    replaced,            \* the SerialPort instances recreatePort has replaced: "none" of them is
                         \* live, one is "opening" (its open was in flight and goes on), one is "open"
    ledger,              \* environment: ledger[b] is the kind of block b; the height is Len(ledger)
    listening,           \* startListening: "idle" (not called), "tipWait" (awaiting
                         \* getBlockNumber), "running" (interval installed), "failed"
    lastBlockChecked,    \* BlockchainListener.lastBlockChecked
    pollingInterval,     \* TRUE while the polling interval is installed
    scan,                \* scan[s]: the checkForEvents call in slot s
    fetched,             \* history: the ranges <<from, to>> of the getLogs answers, in delivery order
    dispatched,          \* history: the blocks whose event was handed to sendCommandWithRetry, in order
    startBlock,          \* history: the height startListening read (0 before it has)
    returned             \* history: what the sendCommandWithRetry calls handed back to the scans:
                         \* the value and the sendCommand calls of each, in order of return

vars == <<deviceExists, port, openCb, isConnected, reconnectTimer, timerDelay,
          reconnectAttempts, commandQueue, deviceCheckInterval, writes, wire,
          command, result, queuedIds, cleaned, episodeDelay, failedOpens, acks,
          lastCall, timers, replaced, ledger, listening, lastBlockChecked, pollingInterval, scan,
          fetched, dispatched, startBlock, returned>>

pollerVars == <<ledger, listening, lastBlockChecked, pollingInterval, scan,
                fetched, dispatched, startBlock, returned>>

\* ----------------------------------------------------------------- helpers

Min(a, b) == IF a <= b THEN a ELSE b

RECURSIVE Pow2(_)
Pow2(n) == IF n = 0 THEN 1 ELSE 2 * Pow2(n - 1)

\* Number of sendCommand calls made so far.
NumCalls == Cardinality({i \in Ids : command[i] # NoCommand})

\* The ids of a sequence of wire entries.
WireIds(w) == [i \in 1..Len(w) |-> w[i].id]

SeqSet(s) == {s[i] : i \in 1..Len(s)}

\* port.write(`${command}`, cb): the payload is the command string itself.
Payload(id) == command[id]

WireEntry(id) == [id |-> id, payload |-> Payload(id)]

\* attemptReconnect: the backoff delay, Math.min(INITIAL * 2^attempts, MAX).
Delay(attempts) ==
    Min(INITIAL_RECONNECT_DELAY * Pow2(attempts), MAX_RECONNECT_DELAY)

\* attemptReconnect: clears the timer and schedules a new one (the
\* MAX_RECONNECT_ATTEMPTS test never passes: the maximum is Infinity).
AttemptReconnect(attempts) == [timer |-> "pending", delay |-> Delay(attempts)]

\* startReconnection: attemptReconnect unless the timer handle is non-null.
StartReconnection(timer, delay, attempts) ==
    IF timer = "null"
    THEN AttemptReconnect(attempts)
    ELSE [timer |-> timer, delay |-> delay]

\* The history of scheduled delays after a startReconnection call.
EpisodeAfterStart(timer, attempts) ==
    IF timer = "null" THEN Delay(attempts) ELSE episodeDelay

\* The timers outstanding after a startReconnection call: attemptReconnect
\* sets one more when the handle is null.
TimersAfterStart(timer, n) == IF timer = "null" THEN n + 1 ELSE n

\* A handle set to null without clearTimeout.
HandleDropped(timer, n) == n

\* if (reconnectTimer !== null) clearTimeout(reconnectTimer): a timer that
\* has not fired yet is cancelled.
ClearTimeout(timer, n) == IF timer = "pending" THEN n - 1 ELSE n

\* recreatePort on the replaced instances: it closes the current instance
\* only if isOpen, so an instance whose open is in flight stays as it is.
ReplacedAfterRecreate(p, r) ==
    IF p = "opening" /\ r = "none" THEN "opening" ELSE r

\* A drain that pops from the tail (pop() for shift()).
RECURSIVE ProcessCommandQueueLifo(_)
ProcessCommandQueueLifo(q) ==
    IF Len(q) = 0 THEN <<>>
    ELSE <<q[Len(q)]>> \o ProcessCommandQueueLifo(SubSeq(q, 1, Len(q) - 1))

\* processCommandQueue: shift commands off the head until the queue is empty,
\* handing each to executeCommand; the result is the order of the writes.
RECURSIVE ProcessCommandQueue(_)
ProcessCommandQueue(q) ==
    IF Len(q) = 0 THEN <<>>
    ELSE <<Head(q)>> \o ProcessCommandQueue(Tail(q))

\* A queue insertion at the head (unshift for push).
EnqueueFront(q, id) == <<id>> \o q

\* sendCommand's commandQueue.push.
Enqueue(q, id) == Append(q, id)

\* A purge that rejects the head of the queue only (if for while).
RejectHeadOnly(q, res, reason) ==
    [i \in Ids |-> IF Len(q) > 0 /\ i = Head(q) THEN Append(res[i], reason) ELSE res[i]]

\* rejectAllQueuedCommands: every queued call is rejected once with the reason.
RejectAllQueuedCommands(q, res, reason) ==
    [i \in Ids |-> IF i \in SeqSet(q) THEN Append(res[i], reason) ELSE res[i]]

\* A purge that rejects the commands and leaves them in the queue.
QueueKept(q) == q

\* The queue rejectAllQueuedCommands leaves behind: it shifts until empty.
QueueAfterReject(q) == <<>>

\* A write callback that ignores its error argument.
WriteResultIgnoringError(ok) == "ok"

\* executeCommand's write callback: reject on an error, resolve otherwise.
WriteResult(ok) == IF ok THEN "ok" ELSE "writeErr"

\* -------------------------------------------------------------------- Init

\* A slot with no checkForEvents call in it.
\* attempts and waits are history: the sendCommand calls and the delays of
\* the sendCommandWithRetry call the scan is in.
\* calls is history too: the ids of those sendCommand calls, in call order.
FreeScan == [pc |-> "free", currentBlock |-> 0, fromBlock |-> 0, logs |-> <<>>,
             callId |-> 0, retryCount |-> 0, attempts |-> 0, waits |-> 0,
             calls |-> <<>>]

\* The constructor: startDeviceCheck, then initializePort, which opens the
\* port through connect() when the device file exists and starts the
\* reconnection otherwise.
Init ==
    /\ deviceExists \in BOOLEAN
    /\ port = IF deviceExists THEN "opening" ELSE "null"
    /\ openCb = deviceExists
    /\ isConnected = FALSE
    /\ reconnectTimer = IF deviceExists THEN "null" ELSE "pending"
    /\ timerDelay = IF deviceExists THEN 0 ELSE Delay(0)
    /\ reconnectAttempts = 0
    /\ commandQueue = <<>>
    /\ deviceCheckInterval = TRUE
    /\ writes = <<>>
    /\ wire = <<>>
    /\ command = [i \in Ids |-> NoCommand]
    /\ result = [i \in Ids |-> <<>>]
    /\ queuedIds = {}
    /\ cleaned = FALSE
    /\ episodeDelay = IF deviceExists THEN 0 ELSE Delay(0)
    /\ failedOpens = 0
    /\ acks = [i \in Ids |-> "none"]
    /\ lastCall = "none"
    /\ timers = IF reconnectTimer = "pending" THEN 1 ELSE 0
    /\ replaced = "none"
    /\ ledger = <<>>
    /\ listening = "idle"
    /\ lastBlockChecked = 0
    /\ pollingInterval = FALSE
    /\ scan = [s \in Scans |-> FreeScan]
    /\ fetched = <<>>
    /\ dispatched = <<>>
    /\ startBlock = 0
    /\ returned = <<>>

\* ----------------------------------------------------------------- actions

\* sendCommand(c), with executeCommand when connected: what the call does to
\* the manager, whoever the caller is.
ManagerSend(c) ==
    /\ NumCalls < Cardinality(Ids)
    /\ LET id == NumCalls + 1 IN
       /\ command' = [command EXCEPT ![id] = c]
       /\ IF ~isConnected
          THEN LET r == StartReconnection(reconnectTimer, timerDelay, reconnectAttempts) IN
               /\ commandQueue' = Enqueue(commandQueue, id)
               /\ queuedIds' = queuedIds \cup {id}
               /\ reconnectTimer' = r.timer
               /\ timerDelay' = r.delay
               /\ episodeDelay' = EpisodeAfterStart(reconnectTimer, reconnectAttempts)
               /\ timers' = TimersAfterStart(reconnectTimer, timers)
               /\ UNCHANGED <<writes, wire, result>>
          ELSE /\ IF port = "null"
                  THEN /\ result' = [result EXCEPT ![id] = Append(@, "noPort")]
                       /\ UNCHANGED <<writes, wire>>
                  ELSE /\ writes' = Append(writes, id)
                       /\ wire' = Append(wire, [id |-> id, payload |-> c])
                       /\ UNCHANGED result
               /\ UNCHANGED <<commandQueue, queuedIds, reconnectTimer, timerDelay,
                              episodeDelay, timers>>
    /\ UNCHANGED <<deviceExists, port, openCb, isConnected, reconnectAttempts,
                   deviceCheckInterval, cleaned, failedOpens, acks, replaced>>
    /\ lastCall' = "none"

\* A sendCommand(c) call of a route handler.
SendCommand(c) ==
    /\ NumCalls < MaxCalls
    /\ ManagerSend(c)
    /\ UNCHANGED pollerVars

\* A drain that takes one command off the queue (if for while).
QueueAfterDrainOne(q) == IF q = <<>> THEN q ELSE Tail(q)

\* processCommandQueue: while (commandQueue.length > 0) shift().
QueueAfterDrain(q) == <<>>

\* The Transport opens: the current port's 'open' handler, which drains the
\* queue through processCommandQueue and executeCommand.
PortOpen ==
    /\ port = "opening"
    /\ deviceExists
    /\ port' = "open"
    /\ isConnected' = TRUE
    /\ reconnectAttempts' = 0
    /\ LET order == ProcessCommandQueue(commandQueue) IN
       /\ writes' = writes \o order
       /\ wire' = wire \o [i \in 1..Len(order) |-> WireEntry(order[i])]
    /\ commandQueue' = QueueAfterDrain(commandQueue)
    /\ episodeDelay' = 0
    /\ failedOpens' = 0
    /\ UNCHANGED <<deviceExists, openCb, reconnectTimer, timerDelay,
                   deviceCheckInterval, command, result, queuedIds, cleaned, acks>>
    /\ lastCall' = "none"
    /\ UNCHANGED pollerVars
    /\ UNCHANGED <<timers, replaced>>

\* The 'error' and 'close' handlers: isConnected = false, startReconnection.
LostHandler ==
    LET r == StartReconnection(reconnectTimer, timerDelay, reconnectAttempts) IN
    /\ isConnected' = FALSE
    /\ reconnectTimer' = r.timer
    /\ timerDelay' = r.delay
    /\ episodeDelay' = EpisodeAfterStart(reconnectTimer, reconnectAttempts)
    /\ timers' = TimersAfterStart(reconnectTimer, timers)

\* An open fails: connect()'s callback rejects, or (autoOpen) 'error' is emitted.
PortOpenFail ==
    /\ port = "opening"
    /\ port' = "closed"
    /\ IF openCb
       THEN UNCHANGED <<isConnected, reconnectTimer, timerDelay, episodeDelay,
                        failedOpens, timers>>
       ELSE /\ LostHandler
            /\ failedOpens' = failedOpens + 1
    /\ UNCHANGED <<deviceExists, openCb, reconnectAttempts, commandQueue,
                   deviceCheckInterval, writes, wire, command, result, queuedIds,
                   cleaned, acks>>
    /\ lastCall' = "none"
    /\ UNCHANGED pollerVars
    /\ UNCHANGED replaced

\* The open port emits 'error'.
PortError ==
    /\ port = "open"
    /\ LostHandler
    /\ UNCHANGED <<deviceExists, port, openCb, reconnectAttempts, commandQueue,
                   deviceCheckInterval, writes, wire, command, result, queuedIds,
                   cleaned, failedOpens, acks>>
    /\ lastCall' = "none"
    /\ UNCHANGED pollerVars
    /\ UNCHANGED replaced

\* The port emits 'close': it was open and the device went away, or close()
\* was called on it.
PortClose ==
    /\ port \in {"open", "closing"}
    /\ port' = "closed"
    /\ LostHandler
    /\ UNCHANGED <<deviceExists, openCb, reconnectAttempts, commandQueue,
                   deviceCheckInterval, writes, wire, command, result, queuedIds,
                   cleaned, failedOpens, acks>>
    /\ lastCall' = "none"
    /\ UNCHANGED pollerVars
    /\ UNCHANGED replaced

\* The presence-check interval callback.
DeviceCheck ==
    /\ deviceCheckInterval
    /\ IF deviceExists /\ ~isConnected /\ reconnectTimer = "null"
       THEN LET r == StartReconnection(reconnectTimer, timerDelay, reconnectAttempts) IN
            /\ reconnectTimer' = r.timer
            /\ timerDelay' = r.delay
            /\ episodeDelay' = EpisodeAfterStart(reconnectTimer, reconnectAttempts)
            /\ timers' = TimersAfterStart(reconnectTimer, timers)
            /\ UNCHANGED port
       ELSE /\ port' = IF ~deviceExists /\ isConnected /\ port = "open"
                       THEN "closing" ELSE port
            /\ UNCHANGED <<reconnectTimer, timerDelay, episodeDelay, timers>>
    /\ UNCHANGED <<deviceExists, openCb, isConnected, reconnectAttempts,
                   commandQueue, deviceCheckInterval, writes, wire, command,
                   result, queuedIds, cleaned, failedOpens, acks>>
    /\ lastCall' = "none"
    /\ UNCHANGED pollerVars
    /\ UNCHANGED replaced

\* The handle the timer callback leaves in reconnectTimer: the callback does
\* not assign the field, so the handle of the fired timer stays.
HandleAfterFire == "fired"

\* The reconnection timer callback: recreatePort (listeners off the old port,
\* close it if open, a new autoOpen port), then reconnectAttempts++.
ReconnectTimerFire ==
    /\ reconnectTimer = "pending"
    /\ reconnectAttempts < MaxAttempts
    /\ reconnectTimer' = HandleAfterFire
    /\ timers' = timers - 1
    /\ replaced' = ReplacedAfterRecreate(port, replaced)
    /\ port' = "opening"
    /\ openCb' = FALSE
    /\ reconnectAttempts' = reconnectAttempts + 1
    /\ UNCHANGED <<deviceExists, isConnected, timerDelay, commandQueue,
                   deviceCheckInterval, writes, wire, command, result, queuedIds,
                   cleaned, episodeDelay, failedOpens, acks>>
    /\ lastCall' = "none"
    /\ UNCHANGED pollerVars

\* A connect() that never takes the early return.
AlreadyConnectedNever(connected) == FALSE

\* connect()'s first test: if (this.isConnected) resolve and return.
AlreadyConnected(connected) == connected

\* connect(): resolve at once when connected, reject without a port;
\* otherwise reset the attempts, clear the timer and port.open(cb), which
\* starts an open only on a port that is neither open, opening nor closing.
Connect ==
    /\ IF AlreadyConnected(isConnected) \/ port = "null"
       THEN UNCHANGED <<reconnectAttempts, reconnectTimer, port, openCb, failedOpens,
                        episodeDelay, timers>>
       ELSE /\ reconnectAttempts' = 0
            /\ reconnectTimer' = "null"
            /\ timers' = ClearTimeout(reconnectTimer, timers)
            /\ failedOpens' = 0
            /\ episodeDelay' = 0
            /\ port' = IF port = "closed" THEN "opening" ELSE port
            /\ openCb' = IF port = "closed" THEN TRUE ELSE openCb
    /\ lastCall' = IF AlreadyConnected(isConnected) THEN "connected" ELSE "none"
    /\ UNCHANGED <<deviceExists, isConnected, timerDelay, commandQueue,
                   deviceCheckInterval, writes, wire, command, result, queuedIds,
                   cleaned, acks>>
    /\ UNCHANGED pollerVars
    /\ UNCHANGED replaced

\* cleanup().
Cleanup ==
    /\ deviceCheckInterval' = FALSE
    /\ reconnectTimer' = "null"
    /\ timers' = ClearTimeout(reconnectTimer, timers)
    /\ result' = RejectAllQueuedCommands(commandQueue, result, "purged")
    /\ commandQueue' = QueueAfterReject(commandQueue)
    /\ port' = IF port = "open" THEN "closing" ELSE port
    /\ cleaned' = TRUE
    /\ lastCall' = IF lastCall \in {"cleanup", "cleanup2"} THEN "cleanup2" ELSE "cleanup"
    /\ UNCHANGED <<deviceExists, openCb, isConnected, timerDelay,
                   reconnectAttempts, writes, wire, command, queuedIds,
                   episodeDelay, failedOpens, acks>>
    /\ UNCHANGED pollerVars
    /\ UNCHANGED replaced

\* A write callback that leaves isConnected alone on an error.
ConnectedAfterWriteKept(ok, connected) == connected

\* executeCommand's write callback: this.isConnected = false on an error.
ConnectedAfterWrite(ok, connected) == IF ok THEN connected ELSE FALSE

\* The callback of the oldest outstanding port.write.
WriteComplete(ok) ==
    /\ writes # <<>>
    /\ LET id == Head(writes) IN
       /\ writes' = Tail(writes)
       /\ acks' = [acks EXCEPT ![id] = IF ok THEN "ok" ELSE "err"]
       /\ result' = [result EXCEPT ![id] = Append(@, WriteResult(ok))]
       /\ isConnected' = ConnectedAfterWrite(ok, isConnected)
    /\ UNCHANGED <<deviceExists, port, openCb, reconnectTimer, timerDelay,
                   reconnectAttempts, commandQueue, deviceCheckInterval, wire,
                   command, queuedIds, cleaned, episodeDelay, failedOpens>>
    /\ lastCall' = "none"
    /\ UNCHANGED pollerVars
    /\ UNCHANGED <<timers, replaced>>

\* The device file disappears (unplug) or appears (replug).
DeviceChange ==
    /\ deviceExists' = ~deviceExists
    /\ UNCHANGED <<port, openCb, isConnected, reconnectTimer, timerDelay,
                   reconnectAttempts, commandQueue, deviceCheckInterval, writes,
                   wire, command, result, queuedIds, cleaned, episodeDelay,
                   failedOpens, acks>>
    /\ lastCall' = "none"
    /\ UNCHANGED pollerVars
    /\ UNCHANGED <<timers, replaced>>

\* The open in flight of a replaced instance completes: the instance has no
\* listeners any more, so the manager is told nothing.
ReplacedOpens ==
    /\ replaced = "opening"
    /\ deviceExists
    /\ replaced' = "open"
    /\ UNCHANGED <<deviceExists, port, openCb, isConnected, reconnectTimer, timerDelay,
                   reconnectAttempts, commandQueue, deviceCheckInterval, writes,
                   wire, command, result, queuedIds, cleaned, episodeDelay,
                   failedOpens, acks, timers>>
    /\ lastCall' = "none"
    /\ UNCHANGED pollerVars

\* The open in flight of a replaced instance fails, or the device of a
\* replaced instance that is open goes away.
ReplacedEnds ==
    /\ replaced # "none"
    /\ replaced = "open" => ~deviceExists
    /\ replaced' = "none"
    /\ UNCHANGED <<deviceExists, port, openCb, isConnected, reconnectTimer, timerDelay,
                   reconnectAttempts, commandQueue, deviceCheckInterval, writes,
                   wire, command, result, queuedIds, cleaned, episodeDelay,
                   failedOpens, acks, timers>>
    /\ lastCall' = "none"
    /\ UNCHANGED pollerVars

Next ==
    \/ \E c \in Commands : SendCommand(c)
    \/ PortOpen
    \/ PortOpenFail
    \/ PortError
    \/ PortClose
    \/ DeviceCheck
    \/ ReconnectTimerFire
    \/ Connect
    \/ Cleanup
    \/ \E ok \in BOOLEAN : WriteComplete(ok)
    \/ DeviceChange

Spec == Init /\ [][Next]_vars

\* The manager together with the instances recreatePort has replaced.
TransportNext ==
    \/ \E c \in Commands : SendCommand(c)
    \/ PortOpen
    \/ PortOpenFail
    \/ PortError
    \/ PortClose
    \/ DeviceCheck
    \/ ReconnectTimerFire
    \/ Connect
    \/ Cleanup
    \/ \E ok \in BOOLEAN : WriteComplete(ok)
    \/ DeviceChange
    \/ ReplacedOpens
    \/ ReplacedEnds

TransportSpec == Init /\ [][TransportNext]_vars

\* An open attempted while the device is absent fails.
PortOpenFailAbsent == ~deviceExists /\ PortOpenFail

\* The program left to itself, with a Transport whose opens succeed while the
\* device is present: the callers only send commands, nobody calls connect()
\* or cleanup().
NextLive ==
    \/ \E c \in Commands : SendCommand(c)
    \/ PortOpen
    \/ PortOpenFailAbsent
    \/ PortError
    \/ PortClose
    \/ DeviceCheck
    \/ ReconnectTimerFire
    \/ \E ok \in BOOLEAN : WriteComplete(ok)
    \/ DeviceChange

\* Timers and intervals fire, an open in flight ends, a close() completes and
\* every write callback runs. Nothing is assumed of the callers or of the
\* device being plugged.
LiveSpec ==
    /\ Init
    /\ [][NextLive]_vars
    /\ WF_vars(ReconnectTimerFire)
    /\ WF_vars(DeviceCheck)
    /\ WF_vars(PortOpen)
    /\ WF_vars(PortOpenFailAbsent)
    /\ WF_vars(port = "closing" /\ PortClose)
    /\ WF_vars(\E ok \in BOOLEAN : WriteComplete(ok))

\* ------------------------------------------------------ trigger poller

\* Every variable of the manager but the history of the last call.
managerVars == <<deviceExists, port, openCb, isConnected, reconnectTimer,
                 timerDelay, reconnectAttempts, commandQueue, deviceCheckInterval,
                 writes, wire, command, result, queuedIds, cleaned, episodeDelay,
                 failedOpens, acks, timers, replaced>>

\* A step of the poller that calls nothing of the manager.
ManagerIdle == UNCHANGED managerVars /\ lastCall' = "none"

\* provider.getBlockNumber(): the height of the chain.
GetBlockNumber == Len(ledger)

\* provider.getLogs({fromBlock, toBlock, topics}): the blocks of the range
\* that hold a log with the event's topic, in block order.
RECURSIVE GetLogs(_, _)
GetLogs(fromBlock, toBlock) ==
    IF fromBlock > toBlock
    THEN <<>>
    ELSE (IF ledger[fromBlock] # "none" THEN <<fromBlock>> ELSE <<>>)
         \o GetLogs(fromBlock + 1, toBlock)

\* The scans in progress and the first free slot.
InProgress == {s \in Scans : scan[s].pc # "free"}

FreeSlot == CHOOSE s \in Scans \ InProgress : \A t \in Scans \ InProgress : s <= t

\* checkForEvents() is called: it runs up to its await of getBlockNumber.
CheckForEvents(s) == [scan EXCEPT ![s] = [FreeScan EXCEPT !.pc = "tip"]]

\* The chain grows by one block.
MineBlock(kind) ==
    /\ Len(ledger) < MaxTip
    /\ ledger' = Append(ledger, kind)
    /\ UNCHANGED <<listening, lastBlockChecked, pollingInterval, scan, fetched,
                   dispatched>>
    /\ UNCHANGED <<startBlock, returned>>
    /\ ManagerIdle

\* startListening() is called: it runs up to its await of getBlockNumber.
StartListening ==
    /\ listening = "idle"
    /\ listening' = "tipWait"
    /\ UNCHANGED <<ledger, lastBlockChecked, pollingInterval, scan, fetched,
                   dispatched>>
    /\ UNCHANGED <<startBlock, returned>>
    /\ ManagerIdle

\* A start that leaves the cursor at the constructor's 0.
StartCursorZero(height) == 0

\* startListening: this.lastBlockChecked = await getBlockNumber().
StartCursor(height) == height

\* startListening resumes with the height: it stores it in the cursor,
\* installs the interval and calls checkForEvents for the initial check.
StartListeningResume ==
    /\ listening = "tipWait"
    /\ listening' = "running"
    /\ lastBlockChecked' = StartCursor(GetBlockNumber)
    /\ pollingInterval' = TRUE
    /\ startBlock' = GetBlockNumber
    /\ scan' = CheckForEvents(FreeSlot)
    /\ UNCHANGED <<ledger, fetched, dispatched, returned>>
    /\ ManagerIdle

\* getBlockNumber throws in startListening: the catch logs it, no interval.
StartListeningFail ==
    /\ listening = "tipWait"
    /\ listening' = "failed"
    /\ UNCHANGED <<ledger, lastBlockChecked, pollingInterval, scan, fetched,
                   dispatched>>
    /\ UNCHANGED <<startBlock, returned>>
    /\ ManagerIdle

\* The polling interval fires: its callback calls checkForEvents, whatever
\* the calls made before are doing.
PollTick ==
    /\ pollingInterval
    /\ InProgress # Scans
    /\ scan' = CheckForEvents(FreeSlot)
    /\ UNCHANGED <<ledger, listening, lastBlockChecked, pollingInterval, fetched,
                   dispatched>>
    /\ UNCHANGED <<startBlock, returned>>
    /\ ManagerIdle

\* A stop that leaves the interval installed.
IntervalKept(interval) == interval

\* stopListening: clearInterval(this.pollingInterval), the field set to null.
ClearInterval(interval) == FALSE

\* stopListening(): clears the interval when there is one, and does nothing
\* when there is none.
StopListening ==
    /\ pollingInterval' = IF pollingInterval THEN ClearInterval(pollingInterval) ELSE pollingInterval
    /\ UNCHANGED <<ledger, listening, lastBlockChecked, scan, fetched, dispatched>>
    /\ UNCHANGED <<startBlock, returned>>
    /\ UNCHANGED managerVars
    /\ lastCall' = IF pollingInterval THEN "stop" ELSE "stopNoInterval"

\* A test that lets a height equal to the cursor through (< for <=).
NoNewBlocksStrict(currentBlock, cursor) == currentBlock < cursor

\* checkForEvents: if (currentBlock <= this.lastBlockChecked) return.
NoNewBlocks(currentBlock, cursor) == currentBlock <= cursor

\* A scan's getBlockNumber resolves: return when there is no new block, else
\* call getLogs for lastBlockChecked + 1 .. currentBlock.
ScanTip(s) ==
    /\ scan[s].pc = "tip"
    /\ scan' = IF NoNewBlocks(GetBlockNumber, lastBlockChecked)
               THEN [scan EXCEPT ![s] = FreeScan]
               ELSE [scan EXCEPT ![s] = [@ EXCEPT !.pc = "logs",
                                                  !.currentBlock = GetBlockNumber,
                                                  !.fromBlock = lastBlockChecked + 1]]
    /\ UNCHANGED <<ledger, listening, lastBlockChecked, pollingInterval, fetched,
                   dispatched>>
    /\ UNCHANGED managerVars
    /\ UNCHANGED <<startBlock, returned>>
    /\ lastCall' = IF NoNewBlocks(GetBlockNumber, lastBlockChecked) THEN "noNewBlocks" ELSE "none"

\* A scan's getBlockNumber or getLogs throws: the catch of checkForEvents
\* logs it and the call returns, the cursor as it was.
ScanReadFail(s) ==
    /\ scan[s].pc \in {"tip", "logs"}
    /\ scan' = [scan EXCEPT ![s] = FreeScan]
    /\ UNCHANGED <<ledger, listening, lastBlockChecked, pollingInterval, fetched,
                   dispatched>>
    /\ UNCHANGED <<startBlock, returned>>
    /\ ManagerIdle

\* The for-loop of checkForEvents from the log at the head of logs on, up to
\* the next await: parseLog throws on a malformed log (the catch ends the
\* call), a purchase is dispatched through sendCommandWithRetry, whose first
\* step is device.sendCommand('4'), and after the last log the cursor is set.
ProcessLogs(s, logs) ==
    IF logs = <<>>
    THEN /\ lastBlockChecked' = scan[s].currentBlock
         /\ scan' = [scan EXCEPT ![s] = FreeScan]
         /\ UNCHANGED dispatched
         /\ ManagerIdle
    ELSE IF ledger[Head(logs)] = "malformed"
    THEN /\ scan' = [scan EXCEPT ![s] = FreeScan]
         /\ UNCHANGED <<lastBlockChecked, dispatched>>
         /\ ManagerIdle
    ELSE /\ NumCalls < MaxDispatches
         /\ ManagerSend("4")
         /\ scan' = [scan EXCEPT ![s] = [@ EXCEPT !.pc = "send",
                                                  !.fromBlock = 0,
                                                  !.logs = logs,
                                                  !.callId = NumCalls + 1,
                                                  !.retryCount = 0,
                                                  !.attempts = 1,
                                                  !.waits = 0,
                                                  !.calls = <<NumCalls + 1>>]]
         /\ dispatched' = Append(dispatched, Head(logs))
         /\ UNCHANGED lastBlockChecked

\* A scan's getLogs resolves.
ScanLogs(s) ==
    /\ scan[s].pc = "logs"
    /\ Len(fetched) < MaxFetches
    /\ fetched' = Append(fetched, <<scan[s].fromBlock, scan[s].currentBlock>>)
    /\ ProcessLogs(s, GetLogs(scan[s].fromBlock, scan[s].currentBlock))
    /\ UNCHANGED <<ledger, listening, pollingInterval, startBlock, returned>>

\* A helper that gives up one attempt late (> for >=).
ExhaustedLate(retryCount) == retryCount > MaxRetries

\* sendCommandWithRetry's catch, after retryCount++: the error is thrown on
\* when retryCount >= maxRetries.
Exhausted(retryCount) == retryCount >= MaxRetries

\* A loop that loses the log after the one whose dispatch ended.
RemainingSkipsOne(logs) == IF Len(logs) > 1 THEN Tail(Tail(logs)) ELSE <<>>

\* The for-loop's next iteration: the logs after the one just handled.
Remaining(logs) == Tail(logs)

\* A dispatch error that ends the scan, as an error of the ledger does.
DispatchFailedEndsScan(s) ==
    /\ scan' = [scan EXCEPT ![s] = FreeScan]
    /\ UNCHANGED <<lastBlockChecked, dispatched>>
    /\ ManagerIdle

\* sendCommandWithRetry throws to checkForEvents: the catch around the
\* dispatch logs the error and the loop goes on with the next log.
DispatchFailed(s) == ProcessLogs(s, Remaining(scan[s].logs))

\* A helper that surfaces the settlement of its first sendCommand.
SurfacedFirst(calls, res) == Head(res[calls[1]])

\* sendCommandWithRetry's return await device.sendCommand(command) and its
\* throw error: the value or the error of the call the loop is at, the last.
Surfaced(calls, res) == Head(res[calls[Len(calls)]])

\* What scan s's sendCommandWithRetry call hands back when it returns or throws.
Returned(s) == [value |-> Surfaced(scan[s].calls, result), calls |-> scan[s].calls]

\* The promise of the sendCommand a scan awaits in sendCommandWithRetry is
\* settled: a success returns to the loop; a failure counts a retry, and is
\* thrown at maxRetries, or else the helper waits retryDelay.
ScanSendSettled(s) ==
    /\ scan[s].pc = "send"
    /\ result[scan[s].callId] # <<>>
    /\ IF Head(result[scan[s].callId]) = "ok"
       THEN /\ ProcessLogs(s, Remaining(scan[s].logs))
            /\ returned' = Append(returned, Returned(s))
       ELSE IF Exhausted(scan[s].retryCount + 1)
       THEN /\ DispatchFailed(s)
            /\ returned' = Append(returned, Returned(s))
       ELSE /\ scan' = [scan EXCEPT ![s] = [@ EXCEPT !.pc = "sleep",
                                                     !.retryCount = @ + 1,
                                                     !.waits = @ + 1]]
            /\ UNCHANGED <<lastBlockChecked, dispatched, returned>>
            /\ ManagerIdle
    /\ UNCHANGED <<ledger, listening, pollingInterval, fetched, startBlock>>

\* sendCommandWithRetry's delay is over: it calls device.sendCommand again.
ScanRetry(s) ==
    /\ scan[s].pc = "sleep"
    /\ NumCalls < MaxDispatches
    /\ ManagerSend("4")
    /\ scan' = [scan EXCEPT ![s] = [@ EXCEPT !.pc = "send", !.callId = NumCalls + 1,
                                             !.attempts = @ + 1,
                                             !.calls = Append(@, NumCalls + 1)]]
    /\ UNCHANGED <<ledger, listening, lastBlockChecked, pollingInterval, fetched,
                   dispatched, startBlock, returned>>

\* The poller with the ledger it reads and the manager it dispatches to; the
\* only sendCommand calls are the poller's.
PollerNext ==
    \/ \E kind \in Kinds : MineBlock(kind)
    \/ StartListening
    \/ StartListeningResume
    \/ StartListeningFail
    \/ PollTick
    \/ StopListening
    \/ \E s \in Scans : ScanTip(s)
    \/ \E s \in Scans : ScanReadFail(s)
    \/ \E s \in Scans : ScanLogs(s)
    \/ \E s \in Scans : ScanSendSettled(s)
    \/ \E s \in Scans : ScanRetry(s)
    \/ PortOpen
    \/ PortOpenFail
    \/ PortError
    \/ PortClose
    \/ DeviceCheck
    \/ ReconnectTimerFire
    \/ \E ok \in BOOLEAN : WriteComplete(ok)

PollerSpec == Init /\ [][PollerNext]_vars

\* The poller with a ledger that answers, a Transport whose opens succeed and
\* whose writes may fail, and a caller of connect(): the environment in which
\* a dispatch can fail maxRetries times (the retry timer alone reopens the
\* port once, see HandleAfterFire).
RetryNext ==
    \/ \E kind \in Kinds : MineBlock(kind)
    \/ StartListening
    \/ StartListeningResume
    \/ PollTick
    \/ \E s \in Scans : ScanTip(s)
    \/ \E s \in Scans : ScanLogs(s)
    \/ \E s \in Scans : ScanSendSettled(s)
    \/ \E s \in Scans : ScanRetry(s)
    \/ PortOpen
    \/ ReconnectTimerFire
    \/ Connect
    \/ \E ok \in BOOLEAN : WriteComplete(ok)

RetrySpec == Init /\ [][RetryNext]_vars

\* The poller and the manager left to themselves, with a ledger that answers
\* and a Transport whose opens succeed while the device is present: nobody
\* calls connect(), cleanup() or stopListening().
ScanLiveNext ==
    \/ \E kind \in Kinds : MineBlock(kind)
    \/ StartListening
    \/ StartListeningResume
    \/ PollTick
    \/ \E s \in Scans : ScanTip(s)
    \/ \E s \in Scans : ScanLogs(s)
    \/ \E s \in Scans : ScanSendSettled(s)
    \/ \E s \in Scans : ScanRetry(s)
    \/ PortOpen
    \/ PortOpenFailAbsent
    \/ PortClose
    \/ DeviceCheck
    \/ ReconnectTimerFire
    \/ \E ok \in BOOLEAN : WriteComplete(ok)
    \/ DeviceChange

\* Every answer of the ledger arrives, every timer, interval and delay runs
\* out, an open in flight ends, a close() completes and every write callback
\* runs. Nothing is assumed of the device being plugged.
ScanLiveSpec ==
    /\ Init
    /\ [][ScanLiveNext]_vars
    /\ WF_vars(StartListeningResume)
    /\ \A s \in Scans : WF_vars(ScanTip(s))
    /\ \A s \in Scans : WF_vars(ScanLogs(s))
    /\ \A s \in Scans : WF_vars(ScanSendSettled(s))
    /\ \A s \in Scans : WF_vars(ScanRetry(s))
    /\ WF_vars(ReconnectTimerFire)
    /\ WF_vars(DeviceCheck)
    /\ WF_vars(PortOpen)
    /\ WF_vars(PortOpenFailAbsent)
    /\ WF_vars(port = "closing" /\ PortClose)
    /\ WF_vars(\E ok \in BOOLEAN : WriteComplete(ok))

\* --------------------------------------------- bounded-retry build
\* The DeviceController of the build whose reconnection gives up: it has no
\* presence check, its constructor creates the port with autoOpen: true, and
\* attemptReconnect tests the attempt counter against a finite maximum. Its
\* open handler, recreatePort, connect, cleanup and write callback read as the
\* ones above.

MAX_RECONNECT_ATTEMPTS == 10

\* startReconnection and attemptReconnect of this build: nothing when the
\* handle is non-null; else give up when the counter has reached the maximum
\* (no timer), else schedule the timer with the backoff delay.
ReconnectBounded(timer, delay, attempts) ==
    IF timer # "null"
    THEN [timer |-> timer, delay |-> delay, giveUp |-> FALSE]
    ELSE IF attempts >= MAX_RECONNECT_ATTEMPTS
    THEN [timer |-> "null", delay |-> delay, giveUp |-> TRUE]
    ELSE [timer |-> "pending", delay |-> Delay(attempts), giveUp |-> FALSE]

\* startReconnection() called with the queue q: when attemptReconnect gives
\* up it rejects every queued command with the max-attempts reason.
StartReconnectionBounded(q) ==
    LET r == ReconnectBounded(reconnectTimer, timerDelay, reconnectAttempts) IN
    /\ reconnectTimer' = r.timer
    /\ timerDelay' = r.delay
    /\ episodeDelay' = IF reconnectTimer = "null" /\ ~r.giveUp
                       THEN Delay(reconnectAttempts) ELSE episodeDelay
    /\ timers' = IF reconnectTimer = "null" /\ ~r.giveUp THEN timers + 1 ELSE timers
    /\ commandQueue' = IF r.giveUp THEN QueueAfterReject(q) ELSE q
    /\ result' = IF r.giveUp
                 THEN RejectAllQueuedCommands(q, result, "maxAttempts")
                 ELSE result

\* The constructor (the port is created with autoOpen: true, so an open is in
\* flight) followed by the program's connect() call, whose port.open(cb) finds
\* the port opening and only rejects.
BoundedInit ==
    /\ deviceExists \in BOOLEAN
    /\ port = "opening"
    /\ openCb = FALSE
    /\ isConnected = FALSE
    /\ reconnectTimer = "null"
    /\ timerDelay = 0
    /\ reconnectAttempts = 0
    /\ commandQueue = <<>>
    /\ deviceCheckInterval = FALSE
    /\ writes = <<>>
    /\ wire = <<>>
    /\ command = [i \in Ids |-> NoCommand]
    /\ result = [i \in Ids |-> <<>>]
    /\ queuedIds = {}
    /\ cleaned = FALSE
    /\ episodeDelay = 0
    /\ failedOpens = 0
    /\ acks = [i \in Ids |-> "none"]
    /\ lastCall = "none"
    /\ timers = 0
    /\ replaced = "none"
    /\ ledger = <<>>
    /\ listening = "idle"
    /\ lastBlockChecked = 0
    /\ pollingInterval = FALSE
    /\ scan = [s \in Scans |-> FreeScan]
    /\ fetched = <<>>
    /\ dispatched = <<>>
    /\ startBlock = 0
    /\ returned = <<>>

\* sendCommand(c) of this build, with executeCommand when connected.
BoundedSend(c) ==
    /\ NumCalls < MaxCalls
    /\ LET id == NumCalls + 1 IN
       /\ command' = [command EXCEPT ![id] = c]
       /\ IF ~isConnected
          THEN /\ queuedIds' = queuedIds \cup {id}
               /\ StartReconnectionBounded(Enqueue(commandQueue, id))
               /\ UNCHANGED <<writes, wire>>
          ELSE /\ writes' = Append(writes, id)
               /\ wire' = Append(wire, [id |-> id, payload |-> c])
               /\ UNCHANGED <<commandQueue, queuedIds, reconnectTimer, timerDelay,
                              episodeDelay, timers, result>>
    /\ UNCHANGED <<deviceExists, port, openCb, isConnected, reconnectAttempts,
                   deviceCheckInterval, cleaned, failedOpens, acks, replaced>>
    /\ lastCall' = "none"
    /\ UNCHANGED pollerVars

\* The 'error' and 'close' handlers of this build.
BoundedLost ==
    /\ isConnected' = FALSE
    /\ StartReconnectionBounded(commandQueue)

\* An open fails: connect()'s callback rejects, or (autoOpen) 'error' is emitted.
BoundedOpenFail ==
    /\ port = "opening"
    /\ port' = "closed"
    /\ IF openCb
       THEN UNCHANGED <<isConnected, reconnectTimer, timerDelay, episodeDelay,
                        failedOpens, timers, commandQueue, result>>
       ELSE /\ BoundedLost
            /\ failedOpens' = failedOpens + 1
    /\ UNCHANGED <<deviceExists, openCb, reconnectAttempts, deviceCheckInterval,
                   writes, wire, command, queuedIds, cleaned, acks, replaced>>
    /\ lastCall' = "none"
    /\ UNCHANGED pollerVars

\* The open port emits 'error'.
BoundedPortError ==
    /\ port = "open"
    /\ BoundedLost
    /\ UNCHANGED <<deviceExists, port, openCb, reconnectAttempts, deviceCheckInterval,
                   writes, wire, command, queuedIds, cleaned, failedOpens, acks,
                   replaced>>
    /\ lastCall' = "none"
    /\ UNCHANGED pollerVars

\* The port emits 'close'.
BoundedPortClose ==
    /\ port \in {"open", "closing"}
    /\ port' = "closed"
    /\ BoundedLost
    /\ UNCHANGED <<deviceExists, openCb, reconnectAttempts, deviceCheckInterval,
                   writes, wire, command, queuedIds, cleaned, failedOpens, acks,
                   replaced>>
    /\ lastCall' = "none"
    /\ UNCHANGED pollerVars

\* The reconnection timer callback of this build: recreatePort, then
\* reconnectAttempts++; the handle is not assigned here either.
BoundedTimerFire ==
    /\ reconnectTimer = "pending"
    /\ reconnectTimer' = HandleAfterFire
    /\ timers' = timers - 1
    /\ replaced' = ReplacedAfterRecreate(port, replaced)
    /\ port' = "opening"
    /\ openCb' = FALSE
    /\ reconnectAttempts' = reconnectAttempts + 1
    /\ UNCHANGED <<deviceExists, isConnected, timerDelay, commandQueue,
                   deviceCheckInterval, writes, wire, command, result, queuedIds,
                   cleaned, episodeDelay, failedOpens, acks>>
    /\ lastCall' = "none"
    /\ UNCHANGED pollerVars

BoundedNext ==
    \/ \E c \in Commands : BoundedSend(c)
    \/ PortOpen
    \/ BoundedOpenFail
    \/ BoundedPortError
    \/ BoundedPortClose
    \/ BoundedTimerFire
    \/ Connect
    \/ Cleanup
    \/ \E ok \in BOOLEAN : WriteComplete(ok)
    \/ DeviceChange

BoundedSpec == BoundedInit /\ [][BoundedNext]_vars

\* ------------------------------------------------ queue-less build
\* The DeviceController without queue and reconnection: one SerialPort for
\* the life of the program, opened by the connect() call made at startup (or
\* by autoOpen in the builds that create it so), a connection flag set by the
\* port's notifications, and a sendCommand that writes or rejects.

\* The constructor and the connect() call that follows it: an open is in
\* flight, with connect()'s callback or (autoOpen) without one.
SimpleInit ==
    /\ deviceExists \in BOOLEAN
    /\ port = "opening"
    /\ openCb \in BOOLEAN
    /\ isConnected = FALSE
    /\ reconnectTimer = "null"
    /\ timerDelay = 0
    /\ reconnectAttempts = 0
    /\ commandQueue = <<>>
    /\ deviceCheckInterval = FALSE
    /\ writes = <<>>
    /\ wire = <<>>
    /\ command = [i \in Ids |-> NoCommand]
    /\ result = [i \in Ids |-> <<>>]
    /\ queuedIds = {}
    /\ cleaned = FALSE
    /\ episodeDelay = 0
    /\ failedOpens = 0
    /\ acks = [i \in Ids |-> "none"]
    /\ lastCall = "none"
    /\ timers = 0
    /\ replaced = "none"
    /\ ledger = <<>>
    /\ listening = "idle"
    /\ lastBlockChecked = 0
    /\ pollingInterval = FALSE
    /\ scan = [s \in Scans |-> FreeScan]
    /\ fetched = <<>>
    /\ dispatched = <<>>
    /\ startBlock = 0
    /\ returned = <<>>

\* What the steps of this build leave alone: it has no timer, queue or poller.
simpleRest == <<deviceExists, reconnectTimer, timerDelay, reconnectAttempts,
                commandQueue, deviceCheckInterval, queuedIds, cleaned,
                episodeDelay, failedOpens, timers, replaced>>

\* A sendCommand that takes every manager for connected.
NotConnectedNever(connected) == FALSE

\* sendCommand's test: if (!this.isConnected) reject and return.
NotConnected(connected) == ~connected

\* port.write(`${command}\n`, cb): the command and a line feed.
SimplePayload(c) == <<c, "\n">>

\* sendCommand(c).
SimpleSend(c) ==
    /\ NumCalls < MaxCalls
    /\ LET id == NumCalls + 1 IN
       /\ command' = [command EXCEPT ![id] = c]
       /\ IF NotConnected(isConnected)
          THEN /\ result' = [result EXCEPT ![id] = Append(@, "notConnected")]
               /\ UNCHANGED <<writes, wire>>
          ELSE /\ writes' = Append(writes, id)
               /\ wire' = Append(wire, [id |-> id, payload |-> SimplePayload(c)])
               /\ UNCHANGED result
    /\ UNCHANGED <<port, openCb, isConnected, acks>>
    /\ UNCHANGED simpleRest
    /\ lastCall' = "none"
    /\ UNCHANGED pollerVars

\* The 'open' handler.
SimpleOpen ==
    /\ port = "opening"
    /\ deviceExists
    /\ port' = "open"
    /\ isConnected' = TRUE
    /\ UNCHANGED <<openCb, writes, wire, command, result, acks>>
    /\ UNCHANGED simpleRest
    /\ lastCall' = "none"
    /\ UNCHANGED pollerVars

\* The open fails: connect()'s callback rejects, or (autoOpen) the 'error'
\* handler runs.
SimpleOpenFail ==
    /\ port = "opening"
    /\ port' = "closed"
    /\ isConnected' = IF openCb THEN isConnected ELSE FALSE
    /\ UNCHANGED <<openCb, writes, wire, command, result, acks>>
    /\ UNCHANGED simpleRest
    /\ lastCall' = "none"
    /\ UNCHANGED pollerVars

\* The 'error' handler, on an error of the open port.
SimpleError ==
    /\ port = "open"
    /\ isConnected' = FALSE
    /\ UNCHANGED <<port, openCb, writes, wire, command, result, acks>>
    /\ UNCHANGED simpleRest
    /\ lastCall' = "none"
    /\ UNCHANGED pollerVars

\* The 'close' handler: the device went away.
SimpleClose ==
    /\ port = "open"
    /\ port' = "closed"
    /\ isConnected' = FALSE
    /\ UNCHANGED <<openCb, writes, wire, command, result, acks>>
    /\ UNCHANGED simpleRest
    /\ lastCall' = "none"
    /\ UNCHANGED pollerVars

\* connect(): resolve at once when connected, else port.open(cb), which
\* starts an open only on a port that is neither open nor opening.
SimpleConnect ==
    /\ port' = IF ~AlreadyConnected(isConnected) /\ port = "closed" THEN "opening" ELSE port
    /\ openCb' = IF ~AlreadyConnected(isConnected) /\ port = "closed" THEN TRUE ELSE openCb
    /\ lastCall' = IF AlreadyConnected(isConnected) THEN "connected" ELSE "none"
    /\ UNCHANGED <<isConnected, writes, wire, command, result, acks>>
    /\ UNCHANGED simpleRest
    /\ UNCHANGED pollerVars

\* The callback of the oldest outstanding port.write: it settles the call
\* and leaves the connection flag alone.
SimpleWriteComplete(ok) ==
    /\ writes # <<>>
    /\ LET id == Head(writes) IN
       /\ writes' = Tail(writes)
       /\ acks' = [acks EXCEPT ![id] = IF ok THEN "ok" ELSE "err"]
       /\ result' = [result EXCEPT ![id] = Append(@, WriteResult(ok))]
    /\ UNCHANGED <<port, openCb, isConnected, wire, command>>
    /\ UNCHANGED simpleRest
    /\ lastCall' = "none"
    /\ UNCHANGED pollerVars

SimpleNext ==
    \/ \E c \in Commands : SimpleSend(c)
    \/ SimpleOpen
    \/ SimpleOpenFail
    \/ SimpleError
    \/ SimpleClose
    \/ SimpleConnect
    \/ \E ok \in BOOLEAN : SimpleWriteComplete(ok)
    \/ DeviceChange

SimpleSpec == SimpleInit /\ [][SimpleNext]_vars

\* ------------------------------------------------------------------ claims

\* The increasing enumeration of a finite set of call ids (submission order).
RECURSIVE SortedSeq(_)
SortedSeq(S) ==
    IF S = {} THEN <<>>
    ELSE LET m == CHOOSE x \in S : \A y \in S : x <= y
         IN <<m>> \o SortedSeq(S \ {m})

\* The calls made while not connected that are neither purged nor written.
AwaitingOpen ==
    {id \in queuedIds : result[id] = <<>> /\ id \notin SeqSet(WireIds(wire))}

\* A step in which the current port reports open.
OpenStep == port = "opening" /\ port' = "open"

\* C1: when the Transport reports open, the commands submitted while not
\* connected (and not purged since) are written to the Transport in exactly
\* the order of their submission, each once with its own payload, and nothing
\* else is written in that step.
C1_QueuedWrittenInOrderOnOpen ==
    [][OpenStep =>
        LET new == SubSeq(wire', Len(wire) + 1, Len(wire')) IN
        /\ SubSeq(wire', 1, Len(wire)) = wire
        /\ WireIds(new) = SortedSeq(AwaitingOpen)
        /\ \A i \in 1..Len(new) : new[i].payload = command[new[i].id]]_vars

\* C1 witness: two commands queued while disconnected have both been written
\* by an open and await their write callbacks.
C1_Witness ==
    /\ port = "open"
    /\ Len(writes) >= 2
    /\ \A i \in 1..Len(writes) : writes[i] \in queuedIds

\* C2: the payloads handed to the Transport are in the order of their
\* sendCommand calls: a later call is never written before an earlier one.
C2_WireInSubmissionOrder ==
    \A i, j \in 1..Len(wire) : i < j => wire[i].id < wire[j].id

\* C2 witness: a queued command was written and a directly written command
\* of a later call follows it on the wire.
C2_Witness ==
    \E i, j \in 1..Len(wire) :
        /\ i < j
        /\ wire[i].id \in queuedIds
        /\ wire[j].id \notin queuedIds

\* C3: every call is settled at most once, and a call rejected by a queue
\* purge is never written to the Transport.
C3_SettledAtMostOnce ==
    \A id \in Ids :
        /\ Len(result[id]) <= 1
        /\ "purged" \in SeqSet(result[id]) => id \notin SeqSet(WireIds(wire))

\* C3 witness: one call was purged from the queue and a later queued call
\* was written and settled by its write callback after a reconnection.
C3_Witness ==
    \E a, b \in Ids :
        /\ a < b
        /\ result[a] = <<"purged">>
        /\ b \in queuedIds
        /\ acks[b] # "none"

\* A step in which an open attempted without a callback fails: the Transport
\* reports 'error' before the port ever opened.
OpenFailStep == port = "opening" /\ port' = "closed" /\ ~openCb

\* C4: every command queued while not connected is eventually settled
\* (executed or purged), provided the device ends up present for good, so
\* that every open attempted from then on succeeds.
C4_QueuedEventuallySettled ==
    (<>[]deviceExists) =>
        \A id \in Ids : (id \in SeqSet(commandQueue)) ~> (result[id] # <<>>)

\* C5: whenever an open attempt fails and cleanup() has not been called,
\* another retry timer is scheduled.
C5_RetryScheduledAfterFailedOpen ==
    [][(OpenFailStep /\ ~cleaned) => reconnectTimer' = "pending"]_vars

\* C6: when the device has been absent and ends up present for good, the
\* manager reaches Connected after the absence (nobody calls connect()).
C6_ReconnectsAfterReplug ==
    (<>[]deviceExists) => [](~deviceExists => <>isConnected)

\* C7: after the N-th consecutive failed open of a reconnection episode a
\* retry timer is scheduled whose delay is min(initialDelay * 2^N, maxDelay)
\* (1000, 2000, 4000, ... with the program's constants).
C7_DelayAfterFailedOpens ==
    [][(OpenFailStep /\ ~cleaned) =>
        /\ reconnectTimer' = "pending"
        /\ timerDelay' = Delay(failedOpens')]_vars

\* A step in which a retry timer is scheduled.
SchedStep == reconnectTimer' = "pending" /\ reconnectTimer # "pending"

\* C8: the attempt counter is zero after every successful open, the first
\* retry delay scheduled after a successful open is initialDelay, and within
\* an episode the scheduled delays never decrease nor exceed maxDelay.
C8_BackoffResetOnOpen ==
    [][/\ OpenStep => reconnectAttempts' = 0
       /\ SchedStep =>
            /\ timerDelay' <= MAX_RECONNECT_DELAY
            /\ timerDelay' >= episodeDelay
            /\ episodeDelay = 0 => timerDelay' = INITIAL_RECONNECT_DELAY]_vars

\* The number of port.write calls made for call id.
WriteCount(id) == Cardinality({i \in 1..Len(wire) : wire[i].id = id})

\* C9: a command queued while disconnected is written at most once, with its
\* own payload, and its promise resolves with success only when exactly one
\* write of it was made and that write's callback reported success.
C9_QueuedResolvedAfterOneWrite ==
    \A id \in queuedIds :
        /\ WriteCount(id) <= 1
        /\ \A i \in 1..Len(wire) : wire[i].id = id => wire[i].payload = command[id]
        /\ "ok" \in SeqSet(result[id]) => (WriteCount(id) = 1 /\ acks[id] = "ok")

\* C9 witness: sendCommand("4") was queued while disconnected, the Transport
\* opened, the one write of "4" completed and the promise resolved.
C9_Witness ==
    \E id \in queuedIds :
        /\ command[id] = "4"
        /\ result[id] = <<"ok">>
        /\ wire = <<[id |-> id, payload |-> "4"]>>

\* C10: cleanup() rejects every command that is in the queue when it is
\* called with the shutting-down failure, leaves the queue empty, and settles
\* or writes nothing else.
C10_CleanupPurgesQueue ==
    [][Cleanup =>
        /\ \A id \in SeqSet(commandQueue) : result'[id] = <<"purged">>
        /\ \A id \in Ids \ SeqSet(commandQueue) : result'[id] = result[id]
        /\ commandQueue' = <<>>
        /\ writes' = writes
        /\ wire' = wire]_vars

\* C10 witness: cleanup() purged a queued command while an earlier command,
\* written before the connection was lost, still awaited its write callback.
C10_Witness ==
    /\ cleaned
    /\ \E a, b \in Ids :
        /\ result[a] = <<"purged">>
        /\ b \in SeqSet(writes)
        /\ result[b] = <<>>

\* C11: in every state after cleanup() no retry timer is pending and the
\* presence-check interval is off, also after the close notification that
\* cleanup's own close of the port causes.
C11_NoTimersAfterCleanup ==
    cleaned => (reconnectTimer # "pending" /\ ~deviceCheckInterval)

\* The variables a call of the manager's interface can change, the history of
\* the calls themselves (cleaned, lastCall) apart.
managerState == <<port, openCb, isConnected, reconnectTimer, timerDelay,
                  reconnectAttempts, commandQueue, deviceCheckInterval, writes,
                  wire, command, result, queuedIds>>

\* C12: a cleanup() directly after a cleanup() settles no completion and
\* leaves the queue, the timers and the connection flag as the first left them.
C12_SecondCleanupChangesNothing ==
    [][(Cleanup /\ lastCall \in {"cleanup", "cleanup2"}) => UNCHANGED managerState]_vars

\* A second cleanup() ran directly after one that purged a queued command.
C12_Witness ==
    /\ lastCall = "cleanup2"
    /\ \E id \in Ids : result[id] = <<"purged">>

\* C13: connect() while connected resolves at once and changes nothing of
\* the manager's state.
C13_ConnectWhileConnectedChangesNothing ==
    [][(Connect /\ isConnected) => (lastCall' = "connected" /\ UNCHANGED managerState)]_vars

\* connect() returned at once on a connected manager whose fired timer handle
\* was still stored.
C13_Witness ==
    /\ lastCall = "connected"
    /\ isConnected
    /\ reconnectTimer = "fired"

\* The open that connect() asked for fails: its callback runs with the error.
ConnectOpenFailStep == port = "opening" /\ openCb /\ port' = "closed"

\* C14: when the open asked for by connect() fails, a retry is scheduled as
\* a consequence of the failure.
C14_RetryScheduledAfterConnectFails ==
    [][ConnectOpenFailStep => reconnectTimer' = "pending"]_vars

\* A sendCommand call is made: the next call id gets its command.
SendStep == NumCalls' = NumCalls + 1

\* C15: after a sendCommand on a manager that is not connected the command
\* is last in the queue and a reconnection is in progress: the retry timer is
\* pending or an open is in flight.
C15_QueuedWithReconnectionInProgress ==
    [][(SendStep /\ ~isConnected) =>
          /\ commandQueue' # <<>>
          /\ commandQueue'[Len(commandQueue')] = NumCalls'
          /\ (reconnectTimer' = "pending" \/ port' = "opening")]_vars

\* C16: a close or error of the Transport while connected marks the manager
\* not connected and schedules the retry timer at once, attempts at zero and
\* the delay the initial one, also on a connection a retry established.
C16_LossStartsFreshEpisode ==
    [][((PortError \/ PortClose) /\ isConnected) =>
          /\ ~isConnected'
          /\ reconnectTimer' = "pending"
          /\ reconnectAttempts' = 0
          /\ timerDelay' = INITIAL_RECONNECT_DELAY]_vars

\* The write callback of call id reports an error.
WriteFailStep(id) == acks[id] = "none" /\ acks'[id] = "err"

\* C17: a write that fails while connected resolves its command with the
\* failure, neither queues nor writes the command again, and marks the manager
\* not connected, so that the next sendCommand is queued and not written.
C17_WriteFailureRejectsAndDisconnects ==
    [][/\ \A id \in Ids :
            WriteFailStep(id) =>
                /\ result'[id] = <<"writeErr">>
                /\ commandQueue' = commandQueue
                /\ wire' = wire
                /\ ~isConnected'
       /\ \A id \in Ids :
            (result[id] = <<"writeErr">>) =>
                /\ result'[id] = result[id]
                /\ id \notin SeqSet(commandQueue')
                /\ WriteCount(id)' = 1
       /\ (SendStep /\ ~isConnected) =>
                /\ NumCalls' \in SeqSet(commandQueue')
                /\ wire' = wire]_vars

\* A write failed on a connected manager and the next sendCommand was queued.
C17_Witness ==
    /\ result[1] = <<"writeErr">>
    /\ 2 \in SeqSet(commandQueue)
    /\ WireIds(wire) = <<1>>

\* C18: once startListening has stored the initial height, no assignment
\* to lastBlockChecked writes less than the cursor holds.
C18_CursorNeverDecreases ==
    [][listening = "running" => lastBlockChecked' >= lastBlockChecked]_vars

\* C19: the ranges the scans fetch follow one another: each starts right
\* after the end of the one before, so they are disjoint and skip no block,
\* and no event is dispatched by two scans.
C19_RangesDisjointAndContiguous ==
    /\ \A i \in 1..(Len(fetched) - 1) : fetched[i + 1][1] = fetched[i][2] + 1
    /\ \A i, j \in 1..Len(dispatched) : dispatched[i] = dispatched[j] => i = j

\* C20: at no time are two scans in progress, whenever the interval fires.
C20_ScansSequential == Cardinality(InProgress) <= 1

\* C24: whenever the manager is connected the command queue is empty: the
\* open handler drains the whole queue in its one step and nothing is queued
\* while connected.
C24_QueueEmptyWhileConnected == isConnected => commandQueue = <<>>

\* An open drained a queue of two commands: both were written, none is queued.
C24_Witness ==
    /\ isConnected
    /\ queuedIds = {1, 2}
    /\ WireIds(wire) = <<1, 2>>
    /\ commandQueue = <<>>

\* C25: at most one retry timer is outstanding at any time: a timer is only
\* scheduled when the one before has fired or was cleared.
C25_AtMostOneRetryTimer ==
    /\ timers <= 1
    /\ timers = 1 <=> reconnectTimer = "pending"

\* A second timer is outstanding after the first has fired and its handle
\* was cleared: its delay is the one of the second attempt.
C25_Witness ==
    /\ timers = 1
    /\ reconnectAttempts = 1
    /\ timerDelay = Delay(1)

\* C26: at most one Transport instance is open or opening: no instance
\* that recreatePort replaced stays open or opening, or completes an open.
C26_OneLiveTransport ==
    /\ replaced # "open"
    /\ ~(replaced = "opening" /\ port \in {"open", "opening"})

\* The close notification of a port that close() was called on.
CloseAfterCloseStep == port = "closing" /\ port' = "closed"

\* C27: a presence check that finds the device absent while connected closes
\* the open port, and the close notification that follows marks the manager
\* not connected and starts a reconnection; a check that finds the device
\* present while connected, or absent while not connected, changes nothing.
C27_PresenceCheckForcesReconnection ==
    [][/\ (DeviceCheck /\ ~deviceExists /\ isConnected /\ port = "open") =>
            port' = "closing"
       /\ (CloseAfterCloseStep /\ ~cleaned) =>
            (~isConnected' /\ reconnectTimer' = "pending")
       /\ (DeviceCheck /\ (deviceExists <=> isConnected)) =>
            UNCHANGED <<managerState, replaced>>]_vars

\* A scan leaves its slot: the checkForEvents call returns.
ScanEnds(s) == scan[s].pc # "free" /\ scan'[s].pc = "free"

\* Scan s asks getLogs for a range.
ScanRequests(s) == scan[s].pc = "tip" /\ scan'[s].pc = "logs"

\* Every log of the ledger decodes.
Decodable(l) == \A b \in 1..Len(l) : l[b] # "malformed"

\* C21: a scan that read height T and fetched its range ends with the
\* cursor at T, whatever the dispatches came to, and once a range was fetched
\* no later scan asks for a range that starts at or before its end.
C21_CursorAtTipAndNoRescan ==
    [][Decodable(ledger') =>
         \A s \in Scans :
            /\ (ScanEnds(s) /\ (scan[s].pc = "send" \/ fetched' # fetched)) =>
                    lastBlockChecked' = scan[s].currentBlock
            /\ ScanRequests(s) =>
                    \A i \in 1..Len(fetched) : scan'[s].fromBlock > fetched[i][2]]_vars

\* C22: a scan whose getLogs or whose decoding of a log fails still ends
\* with the cursor at the height it read.
C22_CursorAdvancesOnFetchError ==
    [][\A s \in Scans :
          (ScanEnds(s) /\ scan[s].pc \in {"logs", "send"}) =>
              lastBlockChecked' = scan[s].currentBlock]_vars

\* The sendCommand a scan waits for has failed and the scan moves.
SendFailedStep(s) ==
    /\ scan[s].pc = "send"
    /\ result[scan[s].callId] # <<>>
    /\ Head(result[scan[s].callId]) # "ok"
    /\ scan'[s] # scan[s]

\* C23: a sendCommandWithRetry call makes at most maxRetries sendCommand
\* calls; when all fail it has made exactly maxRetries of them and waited
\* between them only, maxRetries - 1 times, before it surfaces the failure.
C23_RetryAttemptsAndWaits ==
    [][\A s \in Scans :
          /\ scan'[s].attempts <= MaxRetries
          /\ scan'[s].pc = "send" => scan'[s].waits = scan'[s].attempts - 1
          /\ scan'[s].pc = "sleep" => scan'[s].waits = scan'[s].attempts
          /\ SendFailedStep(s) =>
                IF scan[s].attempts < MaxRetries
                THEN scan'[s].pc = "sleep" /\ scan'[s].attempts = scan[s].attempts
                ELSE /\ scan[s].attempts = MaxRetries
                     /\ scan[s].waits = MaxRetries - 1
                     /\ scan'[s].pc # "sleep"]_vars

\* The third sendCommand of one dispatch has failed after two waits.
C23_Witness ==
    \E s \in Scans :
        /\ scan[s].pc = "send"
        /\ scan[s].attempts = MaxRetries
        /\ scan[s].waits = MaxRetries - 1
        /\ result[scan[s].callId] = <<"writeErr">>
        /\ fetched = <<<<1, 1>>>>

\* The dispatch scan s waits for is over: its sendCommand succeeded or the
\* last attempt allowed has failed.
DispatchOver(s) ==
    /\ scan[s].pc = "send"
    /\ result[scan[s].callId] # <<>>
    /\ \/ Head(result[scan[s].callId]) = "ok"
       \/ scan[s].attempts = MaxRetries

\* Scan s starts the dispatch of a further event.
NextDispatchStep(s) ==
    /\ scan[s].pc = "send"
    /\ scan'[s].pc = "send"
    /\ scan'[s].logs # scan[s].logs

\* C28: within a scan the events are dispatched one at a time in the order
\* getLogs returned them: the next event's first sendCommand is made only
\* when the dispatch before is over, and it is the next event of the answer.
C28_DispatchInFetchOrder ==
    [][\A s \in Scans :
          /\ NextDispatchStep(s) =>
                /\ DispatchOver(s)
                /\ Len(scan[s].logs) >= 2
                /\ Head(scan'[s].logs) = scan[s].logs[2]
                /\ dispatched' = Append(dispatched, scan[s].logs[2])
                /\ scan'[s].attempts = 1
          /\ (ScanEnds(s) /\ scan[s].pc = "send" /\ Decodable(ledger)) =>
                Len(scan[s].logs) = 1]_vars

\* One scan fetched two events and dispatched them in block order.
C28_Witness ==
    /\ fetched = <<<<1, 2>>>>
    /\ dispatched = <<1, 2>>
    /\ result[1] = <<"ok">>

\* C29: a scan that reads a height not above the cursor fetches nothing,
\* dispatches nothing and leaves the cursor as it is.
C29_NoNewBlockIsNoOp ==
    [][\A s \in Scans :
          (scan[s].pc = "tip" /\ scan'[s] # scan[s] /\ GetBlockNumber <= lastBlockChecked) =>
              /\ scan'[s] = FreeScan
              /\ UNCHANGED <<lastBlockChecked, fetched, dispatched, managerVars>>]_vars

\* A scan has just returned for want of a new block, after a scan that
\* fetched a range.
C29_Witness ==
    /\ lastCall = "noNewBlocks"
    /\ fetched # <<>>
    /\ lastBlockChecked = Len(ledger)

\* The last attempt of scan s's dispatch has failed and the scan moves.
ExhaustedStep(s) == SendFailedStep(s) /\ scan[s].attempts = MaxRetries

\* C30: an exhausted dispatch fails its event only: the scan dispatches the
\* next event of its range if there is one, else it ends with the cursor
\* advanced; the interval stays installed and no other scan is touched.
C30_ExhaustedDispatchIsLocal ==
    [][\A s \in Scans :
          ExhaustedStep(s) =>
              /\ IF Len(scan[s].logs) >= 2
                 THEN ledger[scan[s].logs[2]] = "purchase" =>
                         /\ scan'[s].pc = "send"
                         /\ dispatched' = Append(dispatched, scan[s].logs[2])
                 ELSE /\ scan'[s] = FreeScan
                      /\ lastBlockChecked' = scan[s].currentBlock
              /\ pollingInterval' = pollingInterval
              /\ \A t \in Scans \ {s} : scan'[t] = scan[t]]_vars

\* After three failed attempts for the first event of a range the scan has
\* dispatched the second.
C30_Witness ==
    /\ fetched = <<<<1, 2>>>>
    /\ dispatched = <<1, 2>>
    /\ \A id \in 1..MaxRetries : result[id] = <<"writeErr">>
    /\ command[MaxRetries + 1] = "4"

\* startListening resumes with the height it asked for.
StartResumeStep == listening = "tipWait" /\ listening' = "running"

\* C31: startListening stores the height it read in the cursor before any
\* scan runs, and in the same step installs the interval and starts one scan;
\* no range fetched and no event dispatched lies at or below that height, and
\* the first range fetched starts right above it.
C31_StartsAboveInitialTip ==
    [][/\ StartResumeStep =>
            /\ InProgress = {}
            /\ lastBlockChecked' = Len(ledger)
            /\ startBlock' = Len(ledger)
            /\ pollingInterval'
            /\ Cardinality(InProgress') = 1
       /\ listening' # "running" =>
            (InProgress' = {} /\ fetched' = <<>> /\ dispatched' = <<>> /\ ~pollingInterval')
       /\ listening' = "running" =>
            /\ \A i \in 1..Len(fetched') : fetched'[i][1] > startBlock'
            /\ \A i \in 1..Len(dispatched') : dispatched'[i] > startBlock'
            /\ fetched' # <<>> => fetched'[1][1] = startBlock' + 1]_vars

\* The listener started at height 1, where block 1 holds an event, and the
\* only event dispatched is the one of block 2.
C31_Witness ==
    /\ startBlock = 1
    /\ Len(ledger) = 2
    /\ ledger[1] = "purchase"
    /\ fetched = <<<<2, 2>>>>
    /\ dispatched = <<2>>

\* C32: stopListening leaves no interval installed, and while none is
\* installed after a start no scan is started; a stopListening that finds no
\* interval (never started, or stopped before) changes nothing.
C32_StopListeningCancelsAndIsSafe ==
    [][/\ StopListening => ~pollingInterval'
       /\ (StopListening /\ ~pollingInterval) => UNCHANGED <<pollerVars, managerVars>>
       /\ (listening = "running" /\ ~pollingInterval) =>
            \A s \in Scans : scan[s].pc = "free" => scan'[s].pc = "free"]_vars

\* stopListening was called again after it had stopped a listener whose
\* scan is still in progress.
C32_Witness ==
    /\ lastCall = "stopNoInterval"
    /\ listening = "running"
    /\ InProgress # {}

\* The scans that are inside a sendCommandWithRetry call.
Dispatching == {s \in Scans : scan[s].pc \in {"send", "sleep"}}

\* The sendCommandWithRetry calls that made sendCommand call id: the ones
\* that have returned and the ones the scans are in.
WrappersOf(id) ==
    Cardinality({i \in 1..Len(returned) : id \in SeqSet(returned[i].calls)})
    + Cardinality({s \in Dispatching : id \in SeqSet(scan[s].calls)})

\* C33: a sendCommandWithRetry call hands back the settlement of its last
\* sendCommand: a success only after every attempt before it failed, and
\* a failure only when it is the failure of attempt maxRetries; a sendCommand
\* belongs to one wrapper call, so none is made for a call that has returned.
C33_ReturnsFirstSuccessOrLastFailure ==
    /\ \A i \in 1..Len(returned) :
          LET e == returned[i]
              n == Len(e.calls)
          IN /\ n \in 1..MaxRetries
             /\ \A k \in 1..(n - 1) :
                    result[e.calls[k]] # <<>> /\ Head(result[e.calls[k]]) # "ok"
             /\ result[e.calls[n]] # <<>>
             /\ e.value = Head(result[e.calls[n]])
             /\ e.value # "ok" => n = MaxRetries
    /\ \A id \in Ids : command[id] # NoCommand => WrappersOf(id) = 1
    /\ Len(dispatched) = Len(returned) + Cardinality(Dispatching)

\* A dispatch returned the success of its second attempt after the first
\* attempt's write had failed.
C33_Witness ==
    /\ returned = <<[value |-> "ok", calls |-> <<1, 2>>]>>
    /\ result[1] = <<"writeErr">>
    /\ result[2] = <<"ok">>

\* A step of the bounded build that asks for a reconnection: an 'error' or
\* 'close' of the Transport, or a sendCommand on a manager not connected.
ReconnectionRequested ==
    \/ BoundedPortError
    \/ BoundedPortClose
    \/ (BoundedOpenFail /\ ~openCb)
    \/ (SendStep /\ ~isConnected)

\* C34: in the bounded build, a reconnection asked for with the attempt
\* counter at the maximum schedules no timer and rejects every queued command
\* with the max-attempts reason, the queue left empty; so a sendCommand made
\* then while not connected is rejected in its own step and is not queued.
C34_GiveUpRejectsQueued ==
    [][(ReconnectionRequested /\ reconnectAttempts >= MAX_RECONNECT_ATTEMPTS) =>
          /\ reconnectTimer' # "pending"
          /\ commandQueue' = <<>>
          /\ \A id \in SeqSet(commandQueue) : result'[id] = <<"maxAttempts">>
          /\ SendStep => result'[NumCalls'] = <<"maxAttempts">>]_vars

\* C35: the timer handle is non-null exactly while a retry timer is
\* outstanding: the handle of a timer that has fired marks no reconnection
\* as in progress.
C35_HandleSetOnlyWhilePending ==
    (reconnectTimer # "null") <=> (timers = 1)

\* C36: the retry timer never fires on a connected manager, no retry timer
\* is pending while it is connected, and while it is connected the current
\* port is the instance that reported open.
C36_ConnectionNotTornDown ==
    [][/\ ReconnectTimerFire => ~isConnected
       /\ isConnected' =>
            /\ reconnectTimer' # "pending"
            /\ port' \in {"open", "closing"}]_vars

\* C37: after cleanup() the manager writes nothing to the Transport,
\* creates no Transport instance and starts no open, whatever notification
\* or sendCommand call comes (a caller's connect() apart).
C37_QuiescentAfterCleanup ==
    [][(cleaned /\ ~Connect) =>
          /\ wire' = wire
          /\ ~ReconnectTimerFire
          /\ port' = "opening" => port = "opening"]_vars

\* C40: in the queue-less build the connection flag becomes true only by an
\* open notification and false only by an error or close notification, it is
\* true only of an open port, and a sendCommand made while it is false is
\* rejected in its own step with the not-connected failure: nothing is
\* written or queued and the port and the flag stay as they are.
C40_FlagFollowsNotifications ==
    [][/\ (~isConnected /\ isConnected') => SimpleOpen
       /\ (isConnected /\ ~isConnected') => (SimpleError \/ SimpleClose)
       /\ isConnected' => port' = "open"
       /\ (SendStep /\ ~isConnected) =>
            /\ result'[NumCalls'] = <<"notConnected">>
            /\ \A id \in Ids \ {NumCalls'} : result'[id] = result[id]
            /\ UNCHANGED <<wire, writes, commandQueue, queuedIds, port, openCb,
                           isConnected, reconnectTimer, timers>>]_vars

\* After an error notification on the open port a command was rejected as
\* not connected, the command before it having been written.
C40_Witness ==
    /\ port = "open"
    /\ ~isConnected
    /\ WireIds(wire) = <<1>>
    /\ result[2] = <<"notConnected">>

\* stopListening() has cleared the interval startListening installed.
Stopped == listening = "running" /\ ~pollingInterval

\* C39: once stopListening has returned, the poller makes no sendCommand
\* call and assigns the cursor no more, a scan in progress at the time of
\* the call included.
C39_NothingAfterStop ==
    [][Stopped =>
          /\ NumCalls' = NumCalls
          /\ dispatched' = dispatched
          /\ lastBlockChecked' = lastBlockChecked]_vars

\* Some scan waits for the promise of sendCommand call id.
AwaitedByScan(id) == \E s \in Scans : scan[s].pc = "send" /\ scan[s].callId = id

\* C38: no dispatch blocks its scan for ever, also when it was issued while
\* the manager was not connected: the sendCommand a scan waits for is
\* eventually settled, at the latest when the device has come back for good.
C38_DispatchNeverBlocksScan ==
    (<>[]deviceExists) =>
        \A id \in Ids : (AwaitedByScan(id) /\ result[id] = <<>>) ~> (result[id] # <<>>)

====
